---- MODULE Spec2Model ----
(***************************************************************************)
(* A model of mlp/errors.py (the sum-of-squared-differences error) and of  *)
(* mlp/initialisers.py (the parameter initialisers and the generators they *)
(* draw from).                                                             *)
(*                                                                         *)
(* Floating point values are modelled by exact numbers: a rational is a    *)
(* pair <<n, d>> in lowest terms with d > 0, and a value c * sqrt(r) is a  *)
(* record [c |-> rational, r |-> rational].                                *)
(***************************************************************************)
EXTENDS Integers, Sequences, FiniteSets, TLC

VARIABLES
    outputs,    \* errors.py: the outputs argument of the call under study
    targets,    \* errors.py: the targets argument of the call under study
    errRes,     \* errors.py: what the last call on the error object did
    gens,       \* the RandomState objects of the heap, by identity
    objs,       \* the initialiser objects constructed so far
    ctorLog,    \* for each initialiser, the rng its constructor was given
    log         \* for each initialiser, what each call on it did, in order

vars == <<outputs, targets, errRes, gens, objs, ctorLog, log>>

----------------------------------------------------------------------------
(* Bounds of the model. *)

MaxBatch == 3       \* the largest batch_size of outputs and targets
MaxCalls == 3       \* the number of initialiser calls of a run

----------------------------------------------------------------------------
(* Exact arithmetic standing for the float arithmetic of Python and numpy. *)

Abs(x) == IF x < 0 THEN -x ELSE x

RECURSIVE GCD(_, _)
GCD(a, b) == IF b = 0 THEN a ELSE GCD(b, a % b)

\* The float n / d, d # 0.
Rat(n, d) ==
    LET g == GCD(Abs(n), Abs(d))
        s == IF d < 0 THEN -1 ELSE 1
    IN  <<(s * n) \div g, (s * d) \div g>>

RMul(p, q) == Rat(p[1] * q[1], p[2] * q[2])
RAdd(p, q) == Rat(p[1] * q[2] + q[1] * p[2], p[2] * q[2])
RSub(p, q) == Rat(p[1] * q[2] - q[1] * p[2], p[2] * q[2])
RNeg(p) == <<-p[1], p[2]>>
RLe(p, q) == p[1] * q[2] <= q[1] * p[2]
RLt(p, q) == p[1] * q[2] < q[1] * p[2]

----------------------------------------------------------------------------
(* mlp/errors.py *)

\* The two-dimensional arrays with r rows and c columns over vals, r in rows
\* and c in cols; an array is the sequence of its rows.
Arrays(rows, cols, vals) ==
    UNION {[1..r -> [1..c -> vals]] : r \in rows, c \in cols}

\* ndarray.shape of a two-dimensional array.
ShapeOf(a) == <<Len(a), Len(a[1])>>

\* numpy's broadcasting rule for two shapes of the same rank: in every
\* dimension the sizes are equal or one of them is 1.
Broadcastable(s, t) ==
    \A d \in 1..Len(s) : s[d] = t[d] \/ s[d] = 1 \/ t[d] = 1

BroadcastShape(s, t) == [d \in 1..Len(s) |-> IF s[d] = 1 THEN t[d] ELSE s[d]]

\* outputs - targets, under broadcasting: a dimension of size 1 is repeated.
Subtract(o, t) ==
    LET so == ShapeOf(o)
        st == ShapeOf(t)
        sh == BroadcastShape(so, st)
        At(a, s, i, j) == a[IF s[1] = 1 THEN 1 ELSE i][IF s[2] = 1 THEN 1 ELSE j]
    IN  [i \in 1..sh[1] |-> [j \in 1..sh[2] |-> At(o, so, i, j) - At(t, st, i, j)]]

RECURSIVE SeqSum(_)
SeqSum(s) == IF s = <<>> THEN 0 ELSE Head(s) + SeqSum(Tail(s))

\* np.square(a).sum() of a two-dimensional array.
SquareSum(a) ==
    SeqSum([i \in 1..Len(a) |-> SeqSum([j \in 1..Len(a[i]) |-> a[i][j] * a[i][j]])])

\* A slip: the mean over all elements instead of the mean over the batch.
ElementMean_call(o, t) ==
    IF ~Broadcastable(ShapeOf(o), ShapeOf(t))
    THEN [kind |-> "ValueError"]
    ELSE [kind |-> "return",
          value |-> RMul(RMul(Rat(1, ShapeOf(o)[1] * ShapeOf(o)[2]), Rat(1, 2)),
                         Rat(SquareSum(Subtract(o, t)), 1))]

\* SumOfSquaredDiffsError.__call__
\*   return 1 / outputs.shape[0] * 0.5 * np.square(outputs - targets).sum()
\* The product is evaluated left to right; outputs - targets is evaluated
\* last and raises ValueError when the shapes cannot be broadcast.
SumOfSquaredDiffsError_call(o, t) ==
    IF ~Broadcastable(ShapeOf(o), ShapeOf(t))
    THEN [kind |-> "ValueError"]
    ELSE [kind |-> "return",
          value |-> RMul(RMul(Rat(1, ShapeOf(o)[1]), Rat(1, 2)),
                         Rat(SquareSum(Subtract(o, t)), 1))]

\* A slip: the gradient without the 1 / batch_size factor.
Unaveraged_grad(o, t) ==
    IF ~Broadcastable(ShapeOf(o), ShapeOf(t))
    THEN [kind |-> "ValueError"]
    ELSE LET d == Subtract(o, t)
         IN  [kind |-> "return",
              value |-> [i \in 1..Len(d) |->
                            [j \in 1..Len(d[i]) |-> Rat(d[i][j], 1)]]]

\* SumOfSquaredDiffsError.grad
\*   return 1 / outputs.shape[0] * (outputs - targets)
SumOfSquaredDiffsError_grad(o, t) ==
    IF ~Broadcastable(ShapeOf(o), ShapeOf(t))
    THEN [kind |-> "ValueError"]
    ELSE LET d == Subtract(o, t)
             f == Rat(1, ShapeOf(o)[1])
         IN  [kind |-> "return",
              value |-> [i \in 1..Len(d) |->
                            [j \in 1..Len(d[i]) |-> RMul(f, Rat(d[i][j], 1))]]]

\* The batches the error object is called with.
OutputDims == {1, 2}
OutputVals == {1, 2}
TargetVals == {0, 2}
Batches(vals) == Arrays(1..MaxBatch, OutputDims, vals)

NoCall == [op |-> "none"]

ErrInit ==
    /\ outputs \in Batches(OutputVals)
    /\ targets \in Batches(TargetVals)
    /\ errRes = NoCall
    /\ gens = <<>> /\ objs = <<>> /\ ctorLog = <<>> /\ log = <<>>

\* error(outputs, targets)
ErrCall ==
    /\ errRes' = [op |-> "call", ret |-> SumOfSquaredDiffsError_call(outputs, targets)]
    /\ UNCHANGED <<outputs, targets>>
    /\ UNCHANGED <<gens, objs, ctorLog, log>>

\* error.grad(outputs, targets)
ErrGrad ==
    /\ errRes' = [op |-> "grad", ret |-> SumOfSquaredDiffsError_grad(outputs, targets)]
    /\ UNCHANGED <<outputs, targets>>
    /\ UNCHANGED <<gens, objs, ctorLog, log>>

ErrNext == ErrCall \/ ErrGrad

----------------------------------------------------------------------------
(* numpy.random.RandomState, as mlp/initialisers.py uses it.  The stream   *)
(* of a generator is a fixed function of its seed and of the number of     *)
(* doubles drawn so far; a double is a multiple of 1 / RawMod in [0, 1).   *)

RawMod == 8         \* the number of distinct doubles of the stream

\* from mlp import DEFAULT_SEED (its value is set in mlp/__init__.py)
DEFAULT_SEED == 123

Raw(seed, pos) == (seed * 5 + pos * 3 + (pos \div 3) + (pos \div 7)) % RawMod

\* np.random.RandomState(seed)
ZeroGauss == <<0, 1>>
RandomState(seed) == [seed |-> seed, pos |-> 0, has_gauss |-> 0, gauss |-> ZeroGauss]

\* One double of the stream: the value and the generator advanced by it.
random_double(g) ==
    [u |-> Rat(Raw(g.seed, g.pos), RawMod), g |-> [g EXCEPT !.pos = @ + 1]]

\* One standard normal deviate (the polar method of RandomState): a cached
\* deviate is returned and cleared; otherwise pairs of doubles are drawn
\* until one falls strictly inside the unit disc and off its centre, the
\* deviate of the first double is cached and that of the second returned.
\* The deviate x * sqrt(-2 * ln(r2) / r2) is kept as the pair <<x, r2>>,
\* both scaled by RawMod to stay integers.
RECURSIVE legacy_gauss(_)
legacy_gauss(g) ==
    IF g.has_gauss = 1
    THEN [z |-> g.gauss, g |-> [g EXCEPT !.has_gauss = 0, !.gauss = ZeroGauss]]
    ELSE LET x1 == 2 * Raw(g.seed, g.pos) - RawMod
             x2 == 2 * Raw(g.seed, g.pos + 1) - RawMod
             r2 == x1 * x1 + x2 * x2
             g2 == [g EXCEPT !.pos = @ + 2]
         IN  IF r2 >= RawMod * RawMod \/ r2 = 0
             THEN legacy_gauss(g2)
             ELSE [z |-> <<x2, r2>>,
                   g |-> [g2 EXCEPT !.has_gauss = 1, !.gauss = <<x1, r2>>]]

\* n doubles in a row: the values and the generator after them.
RECURSIVE Doubles(_, _)
Doubles(g, n) ==
    IF n = 0 THEN [data |-> <<>>, g |-> g]
    ELSE LET d == random_double(g)
             rest == Doubles(d.g, n - 1)
         IN  [data |-> <<d.u>> \o rest.data, g |-> rest.g]

\* n standard normal deviates in a row.
RECURSIVE Gausses(_, _)
Gausses(g, n) ==
    IF n = 0 THEN [data |-> <<>>, g |-> g]
    ELSE LET d == legacy_gauss(g)
             rest == Gausses(d.g, n - 1)
         IN  [data |-> <<d.z>> \o rest.data, g |-> rest.g]

\* The value c * sqrt(r) of rationals c and r >= 0.
Surd(c, r) == [c |-> c, r |-> r]
Plain(n) == Surd(Rat(n, 1), <<1, 1>>)
\* np.sqrt(q) of a positive rational q.
Sqrt(q) == Surd(<<1, 1>>, q)
\* 1 / np.sqrt(q), which is sqrt(q) / q.
InvSqrt(q) == Surd(Rat(q[2], q[1]), q)
SurdNeg(s) == Surd(RNeg(s.c), s.r)
\* The square of a surd, a rational.
SurdSq(s) == RMul(RMul(s.c, s.c), s.r)

\* The number of elements of an array of a shape.
RECURSIVE Size(_)
Size(shape) == IF shape = <<>> THEN 1 ELSE Head(shape) * Size(Tail(shape))

\* rng.uniform(low=low, high=high, size=shape): low + (high - low) * double
\* for every element, in C order.  low and high share their radicand.
rng_uniform(g, low, high, shape) ==
    LET d == Doubles(g, Size(shape))
        El(u) == Surd(RAdd(low.c, RMul(RSub(high.c, low.c), u)), low.r)
    IN  [kind |-> "return",
         value |-> [shape |-> shape,
                    data |-> [k \in 1..Len(d.data) |-> El(d.data[k])]],
         g |-> d.g]

\* rng.normal(loc=loc, scale=scale, size=shape): ValueError for a negative
\* scale, before anything is drawn; else loc + scale * deviate for every
\* element, kept as the record of the three.
rng_normal(g, loc, scale, shape) ==
    IF RLt(scale.c, <<0, 1>>)
    THEN [kind |-> "ValueError", g |-> g]
    ELSE LET d == Gausses(g, Size(shape))
         IN  [kind |-> "return",
              value |-> [shape |-> shape,
                         data |-> [k \in 1..Len(d.data) |->
                                     [loc |-> loc, scale |-> scale, z |-> d.data[k]]]],
              g |-> d.g]

----------------------------------------------------------------------------
(* mlp/initialisers.py *)

None == 0           \* rng=None; a generator is named by its place in gens

\* The generator the caller made itself, to hand to initialisers, is the
\* first of the heap.
CallerSeed == 7
CallerHeap == <<RandomState(CallerSeed)>>
CallerRng == Len(CallerHeap)

\* A slip: one default generator, made by the first constructor that needs
\* it and kept by every later one (a default made once, not per instance).
SharedDefaultRng(heap, rng) ==
    IF rng = None
    THEN IF Len(heap) > Len(CallerHeap)
         THEN [id |-> Len(CallerHeap) + 1, heap |-> heap]
         ELSE [id |-> Len(heap) + 1, heap |-> Append(heap, RandomState(DEFAULT_SEED))]
    ELSE [id |-> rng, heap |-> heap]

\* A slip: a generator handed in is seeded again with its own seed.
ReseedingRng(heap, rng) ==
    IF rng = None
    THEN [id |-> Len(heap) + 1, heap |-> Append(heap, RandomState(DEFAULT_SEED))]
    ELSE [id |-> rng, heap |-> [heap EXCEPT ![rng] = RandomState(@.seed)]]

\* if rng is None: rng = np.random.RandomState(DEFAULT_SEED)
\* The generator the constructor keeps, and the heap after it.
DefaultRng(heap, rng) ==
    IF rng = None
    THEN [id |-> Len(heap) + 1, heap |-> Append(heap, RandomState(DEFAULT_SEED))]
    ELSE [id |-> rng, heap |-> heap]

\* ConstantInit.__init__
ConstantInit_init(value) == [cls |-> "ConstantInit", value |-> value]

\* UniformInit.__init__
UniformInit_init(low, high, rng, heap) ==
    LET r == DefaultRng(heap, rng)
    IN  [self |-> [cls |-> "UniformInit", low |-> low, high |-> high, rng |-> r.id],
         heap |-> r.heap]

\* NormalInit.__init__
NormalInit_init(mean, std, rng, heap) ==
    LET r == DefaultRng(heap, rng)
    IN  [self |-> [cls |-> "NormalInit", mean |-> mean, std |-> std, rng |-> r.id],
         heap |-> r.heap]

\* SqrtInit.__init__
SqrtInit_init(rng, heap) ==
    LET r == DefaultRng(heap, rng)
    IN  [self |-> [cls |-> "SqrtInit", mean |-> 0, rng |-> r.id], heap |-> r.heap]

\* XavierInit.__init__
XavierInit_init(rng, heap) ==
    LET r == DefaultRng(heap, rng)
    IN  [self |-> [cls |-> "XavierInit", rng |-> r.id], heap |-> r.heap]

\* XavierInitNormal.__init__
XavierInitNormal_init(rng, heap) ==
    LET r == DefaultRng(heap, rng)
    IN  [self |-> [cls |-> "XavierInitNormal", mean |-> 0, rng |-> r.id],
         heap |-> r.heap]

\* KaimingInit.__init__
KaimingInit_init(rng, heap) ==
    LET r == DefaultRng(heap, rng)
    IN  [self |-> [cls |-> "KaimingInit", mean |-> 0, rng |-> r.id], heap |-> r.heap]

\* A slip: the call draws from a copy and leaves the generator as it was.
OnRngCopy(self, heap, r) ==
    IF r.kind = "return"
    THEN [ret |-> [kind |-> "return", value |-> r.value], heap |-> heap]
    ELSE [ret |-> [kind |-> r.kind], heap |-> heap]

\* What a call on a generator leaves: its outcome, and the heap with the
\* generator as the call left it.
OnRng(self, heap, r) ==
    IF r.kind = "return"
    THEN [ret |-> [kind |-> "return", value |-> r.value],
          heap |-> [heap EXCEPT ![self.rng] = r.g]]
    ELSE [ret |-> [kind |-> r.kind], heap |-> [heap EXCEPT ![self.rng] = r.g]]

\* shape[1] of a shape with one dimension
IndexError(heap) == [ret |-> [kind |-> "IndexError"], heap |-> heap]

\* A slip: the array of ones, not scaled by the value.
OnesOnly_call(self, shape, heap) ==
    [ret |-> [kind |-> "return",
              value |-> [shape |-> shape,
                         data |-> [k \in 1..Size(shape) |-> <<1, 1>>]]],
     heap |-> heap]

\* ConstantInit.__call__: np.ones(shape=shape) * self.value
ConstantInit_call(self, shape, heap) ==
    [ret |-> [kind |-> "return",
              value |-> [shape |-> shape,
                         data |-> [k \in 1..Size(shape) |->
                                     RMul(<<1, 1>>, Rat(self.value, 1))]]],
     heap |-> heap]

\* UniformInit.__call__
UniformInit_call(self, shape, heap) ==
    OnRng(self, heap,
          rng_uniform(heap[self.rng], Plain(self.low), Plain(self.high), shape))

\* NormalInit.__call__
NormalInit_call(self, shape, heap) ==
    OnRng(self, heap,
          rng_normal(heap[self.rng], Rat(self.mean, 1), Plain(self.std), shape))

\* SqrtInit.__call__: scale=1/np.sqrt(shape[1])
SqrtInit_call(self, shape, heap) ==
    IF Len(shape) < 2 THEN IndexError(heap)
    ELSE OnRng(self, heap,
               rng_normal(heap[self.rng], Rat(self.mean, 1),
                          InvSqrt(Rat(shape[2], 1)), shape))

\* A slip: the bound from the fan-in alone.
FanInXavier_call(self, shape, heap) ==
    IF Len(shape) < 2 THEN IndexError(heap)
    ELSE OnRng(self, heap,
               rng_uniform(heap[self.rng],
                           SurdNeg(Sqrt(Rat(6, shape[1]))),
                           Sqrt(Rat(6, shape[1])), shape))

\* XavierInit.__call__: low=-np.sqrt(6 / (shape[0] + shape[1])), high=-low
XavierInit_call(self, shape, heap) ==
    IF Len(shape) < 2 THEN IndexError(heap)
    ELSE OnRng(self, heap,
               rng_uniform(heap[self.rng],
                           SurdNeg(Sqrt(Rat(6, shape[1] + shape[2]))),
                           Sqrt(Rat(6, shape[1] + shape[2])), shape))

\* XavierInitNormal.__call__: scale=np.sqrt(2 / (shape[0] + shape[1]))
XavierInitNormal_call(self, shape, heap) ==
    IF Len(shape) < 2 THEN IndexError(heap)
    ELSE OnRng(self, heap,
               rng_normal(heap[self.rng], Rat(self.mean, 1),
                          Sqrt(Rat(2, shape[1] + shape[2])), shape))

\* KaimingInit.__call__: scale=np.sqrt(2 / shape[1])
KaimingInit_call(self, shape, heap) ==
    IF Len(shape) < 2 THEN IndexError(heap)
    ELSE OnRng(self, heap,
               rng_normal(heap[self.rng], Rat(self.mean, 1),
                          Sqrt(Rat(2, shape[2])), shape))

\* initialiser(shape), by the class of the object.
Produce(self, shape, heap) ==
    CASE self.cls = "ConstantInit" -> ConstantInit_call(self, shape, heap)
      [] self.cls = "UniformInit" -> UniformInit_call(self, shape, heap)
      [] self.cls = "NormalInit" -> NormalInit_call(self, shape, heap)
      [] self.cls = "SqrtInit" -> SqrtInit_call(self, shape, heap)
      [] self.cls = "XavierInit" -> XavierInit_call(self, shape, heap)
      [] self.cls = "XavierInitNormal" -> XavierInitNormal_call(self, shape, heap)
      [] self.cls = "KaimingInit" -> KaimingInit_call(self, shape, heap)

Stochastic(self) == self.cls # "ConstantInit"
FanClasses == {"SqrtInit", "XavierInit", "XavierInitNormal", "KaimingInit"}

\* What the callers of the initialisers pass.
ConstantValues == {0, 3}
UniformArgs == {<<2, 5>>, <<5, 2>>}
NormalArgs == {<<1, 2>>, <<0, 0>>, <<0, -1>>}
Shapes == {<<3>>, <<1, 2>>, <<2, 1>>}
RngArgs == {None, CallerRng}
\* The places of the initialisers a run constructs.
Slots == {1, 2}

InitInit ==
    /\ gens = CallerHeap
    /\ objs = <<>>
    /\ ctorLog = <<>>
    /\ log = <<>>
    /\ outputs = <<>> /\ targets = <<>> /\ errRes = NoCall

Constructed(made, rng) ==
    /\ objs' = Append(objs, made.self)
    /\ gens' = made.heap
    /\ ctorLog' = Append(ctorLog, [rng |-> rng])
    /\ log' = Append(log, <<>>)
    /\ UNCHANGED <<outputs, targets, errRes>>

ConstructConstant ==
    /\ Len(objs) + 1 \in Slots
    /\ \E v \in ConstantValues :
        /\ objs' = Append(objs, ConstantInit_init(v))
        /\ ctorLog' = Append(ctorLog, [rng |-> None])
        /\ log' = Append(log, <<>>)
        /\ UNCHANGED <<gens, outputs, targets, errRes>>

ConstructUniform ==
    /\ Len(objs) + 1 \in Slots
    /\ \E a \in UniformArgs, rng \in RngArgs :
        Constructed(UniformInit_init(a[1], a[2], rng, gens), rng)

ConstructNormal ==
    /\ Len(objs) + 1 \in Slots
    /\ \E a \in NormalArgs, rng \in RngArgs :
        Constructed(NormalInit_init(a[1], a[2], rng, gens), rng)

ConstructSqrt ==
    /\ Len(objs) + 1 \in Slots
    /\ \E rng \in RngArgs : Constructed(SqrtInit_init(rng, gens), rng)

ConstructXavier ==
    /\ Len(objs) + 1 \in Slots
    /\ \E rng \in RngArgs : Constructed(XavierInit_init(rng, gens), rng)

ConstructXavierNormal ==
    /\ Len(objs) + 1 \in Slots
    /\ \E rng \in RngArgs : Constructed(XavierInitNormal_init(rng, gens), rng)

ConstructKaiming ==
    /\ Len(objs) + 1 \in Slots
    /\ \E rng \in RngArgs : Constructed(KaimingInit_init(rng, gens), rng)

\* The calls made so far: <<o, k>> is the k-th call on initialiser o.
AllCalls == {p \in (1..Len(objs)) \X (1..MaxCalls) : p[2] <= Len(log[p[1]])}

\* The calls made so far on the initialisers that hold generator g.
GenCalls(g) == {p \in AllCalls : Stochastic(objs[p[1]]) /\ objs[p[1]].rng = g}

\* objs[o](shape).  The entry of a call on a generator tells the state of
\* the generator before and after it, and its place among the calls on
\* that generator.
CallInit ==
    /\ Cardinality(AllCalls) < MaxCalls
    /\ \E o \in 1..Len(objs), shape \in Shapes :
        LET self == objs[o]
            r == Produce(self, shape, gens)
            e == IF Stochastic(self)
                 THEN [shape |-> shape, ret |-> r.ret,
                       pre |-> gens[self.rng], post |-> r.heap[self.rng],
                       seq |-> Cardinality(GenCalls(self.rng)) + 1]
                 ELSE [shape |-> shape, ret |-> r.ret]
        IN  /\ gens' = r.heap
            /\ log' = [log EXCEPT ![o] = Append(@, e)]
            /\ UNCHANGED <<objs, ctorLog, outputs, targets, errRes>>

InitNext ==
    \/ ConstructSqrt
    \/ ConstructXavier
    \/ ConstructXavierNormal
    \/ ConstructKaiming
    \/ ConstructConstant
    \/ ConstructUniform
    \/ ConstructNormal
    \/ CallInit

----------------------------------------------------------------------------
(* The two specifications: the initialisers, and the error function. *)

Spec == InitInit /\ [][InitNext]_vars

SpecErr == ErrInit /\ [][ErrNext]_vars

----------------------------------------------------------------------------
(* Properties of the error function, checked under SpecErr. *)

\* The sum over all elements of (outputs - targets)^2, for equal shapes,
\* summed one index pair at a time.
RECURSIVE SumOver(_, _, _)
SumOver(o, t, idx) ==
    IF idx = {} THEN 0
    ELSE LET p == CHOOSE q \in idx : TRUE
             d == o[p[1]][p[2]] - t[p[1]][p[2]]
         IN  d * d + SumOver(o, t, idx \ {p})

Indices(a) == (1..Len(a)) \X (1..Len(a[1]))

SameShape == ShapeOf(outputs) = ShapeOf(targets)

\* C3: for outputs and targets of one shape (batch_size, output_dim) the call
\* returns (1 / batch_size) * 0.5 * the sum over all elements of
\* (outputs - targets)^2: twice batch_size times the value is that sum.
C3_CallValue ==
    (errRes.op = "call" /\ SameShape) =>
        /\ errRes.ret.kind = "return"
        /\ errRes.ret.value[1] * 2 * Len(outputs)
             = errRes.ret.value[2] * SumOver(outputs, targets, Indices(outputs))

\* outputs = [[1, 2]], targets = [[0, 0]] gives 2.5.
C3_Witness ==
    /\ errRes.op = "call"
    /\ outputs = <<<<1, 2>>>>
    /\ targets = <<<<0, 0>>>>
    /\ errRes.ret = [kind |-> "return", value |-> <<5, 2>>]

\* C4: for outputs and targets of one shape, grad returns an array of the
\* shape of outputs whose element [i][j] is (outputs[i][j] - targets[i][j]) /
\* batch_size, with no 0.5 factor; it is all zero when outputs = targets.
C4_GradValue ==
    (errRes.op = "grad" /\ SameShape) =>
        /\ errRes.ret.kind = "return"
        /\ ShapeOf(errRes.ret.value) = ShapeOf(outputs)
        /\ \A p \in Indices(outputs) :
             LET v == errRes.ret.value[p[1]][p[2]]
             IN  /\ v[2] > 0
                 /\ v[1] * Len(outputs) = v[2] * (outputs[p[1]][p[2]] - targets[p[1]][p[2]])
        /\ outputs = targets =>
             \A p \in Indices(outputs) : errRes.ret.value[p[1]][p[2]] = <<0, 1>>

\* A batch of two: one row differs from its target and one equals it.
C4_Witness ==
    /\ errRes.op = "grad"
    /\ outputs = <<<<1, 2>>, <<2, 2>>>>
    /\ targets = <<<<0, 0>>, <<2, 2>>>>
    /\ errRes.ret = [kind |-> "return",
                     value |-> <<<< <<1, 2>>, <<1, 1>> >>, << <<0, 1>>, <<0, 1>> >>>>]

\* C5: when outputs and targets differ in shape, the call and grad both end
\* in an error and return no value.
C5_MismatchRaises ==
    (errRes.op # "none" /\ ~SameShape) => errRes.ret.kind # "return"

----------------------------------------------------------------------------
(* Properties of the initialisers, checked under Spec. *)

Objs == 1..Len(objs)
Returned(e) == e.ret.kind = "return"
Call(p) == log[p[1]][p[2]]
StochasticCalls == {p \in AllCalls : Stochastic(objs[p[1]])}

\* The calls on generator g in the order they were made, each with the
\* initialiser it was made on.
GenLog(g) ==
    [n \in 1..Cardinality(GenCalls(g)) |->
        LET p == CHOOSE q \in GenCalls(g) : Call(q).seq = n
        IN  [obj |-> p[1], shape |-> Call(p).shape, ret |-> Call(p).ret,
             pre |-> Call(p).pre, post |-> Call(p).post]]

\* o was constructed with no generator supplied.
DefaultConstructed(o) == ctorLog[o].rng = None

\* Two stochastic initialisers of one strategy and the same parameters.
SameStrategy(i, j) == [objs[i] EXCEPT !.rng = None] = [objs[j] EXCEPT !.rng = None]

Twins(i, j) ==
    /\ i # j
    /\ Stochastic(objs[i]) /\ Stochastic(objs[j])
    /\ DefaultConstructed(i) /\ DefaultConstructed(j)
    /\ SameStrategy(i, j)

RECURSIVE Replay(_, _)
Replay(gl, g) ==
    IF gl = <<>> THEN <<>>
    ELSE LET e == Head(gl)
             r == Produce(objs[e.obj], e.shape, [gens EXCEPT ![CallerRng] = g])
         IN  <<[ret |-> r.ret, post |-> r.heap[CallerRng]]>>
                \o Replay(Tail(gl), r.heap[CallerRng])

\* C2: an initialiser constructed with a generator keeps that generator, and
\* no constructor re-seeds it: the generator is where the calls made on it
\* so far have left it, and the n-th call on it, whichever initialiser it was
\* made on, returns what the generator yields after the n - 1 calls before.
C2_SharedGeneratorOrder ==
    LET gl == GenLog(CallerRng)
        rp == Replay(gl, CallerHeap[CallerRng])
    IN  /\ \A o \in Objs : ctorLog[o].rng = CallerRng => objs[o].rng = CallerRng
        /\ gens[CallerRng] = IF gl = <<>> THEN CallerHeap[CallerRng] ELSE rp[Len(rp)].post
        /\ \A n \in 1..Len(gl) : gl[n].ret = rp[n].ret

\* Two initialisers share the caller's generator and are called in turn:
\* the first, the second, the first again; each call draws what follows the
\* draws of the call before.
C2_Witness ==
    /\ Len(objs) = 2
    /\ ctorLog[1].rng = CallerRng /\ ctorLog[2].rng = CallerRng
    /\ Len(log[1]) = 2 /\ Len(log[2]) = 1
    /\ log[1][1].seq = 1 /\ log[2][1].seq = 2 /\ log[1][2].seq = 3
    /\ \A p \in AllCalls : Returned(Call(p))
    /\ log[2][1].pre = log[1][1].post /\ log[1][2].pre = log[2][1].post
    /\ log[1][1].post # CallerHeap[CallerRng]
    /\ gens[CallerRng] = log[1][2].post

\* C6: a call of SqrtInit, XavierInit, XavierInitNormal or KaimingInit with
\* a shape of fewer than two dimensions ends in a shape-arity error, not in
\* an indexing fault, returns no tensor and leaves the generator as it was.
C6_ShapeArityError ==
    \A p \in AllCalls :
        (objs[p[1]].cls \in FanClasses /\ Len(Call(p).shape) < 2) =>
            /\ Call(p).ret.kind = "ShapeArityError"
            /\ Call(p).post = Call(p).pre

\* C7: no UniformInit with low > high and no NormalInit with a non-positive
\* std is ever constructed, so none is ever called.
C7_InvalidParametersRejected ==
    \A o \in Objs :
        /\ objs[o].cls = "UniformInit" => objs[o].low <= objs[o].high
        /\ objs[o].cls = "NormalInit" => objs[o].std > 0

\* C8: every call of a ConstantInit returns an array of the shape asked for
\* whose elements all equal the value, whatever was called before.
C8_ConstantFill ==
    \A p \in AllCalls :
        objs[p[1]].cls = "ConstantInit" =>
            /\ Returned(Call(p))
            /\ Call(p).ret.value.shape = Call(p).shape
            /\ Len(Call(p).ret.value.data) = Size(Call(p).shape)
            /\ \A k \in 1..Len(Call(p).ret.value.data) :
                 Call(p).ret.value.data[k] = <<objs[p[1]].value, 1>>

\* ConstantInit(3) has been called with (3,) and with (2, 1), and a
\* stochastic initialiser has been called too.
C8_Witness ==
    /\ Len(objs) = 2
    /\ objs[1].cls = "ConstantInit" /\ objs[1].value = 3
    /\ Stochastic(objs[2]) /\ Len(log[2]) = 1 /\ Returned(log[2][1])
    /\ Len(log[1]) = 2
    /\ log[1][1].shape = <<3>> /\ log[1][2].shape = <<2, 1>>
    /\ log[1][1].ret.value.data = << <<3, 1>>, <<3, 1>>, <<3, 1>> >>
    /\ log[1][2].ret.value.data = << <<3, 1>>, <<3, 1>> >>

FreshGen(g) == IF g = CallerRng THEN CallerHeap[CallerRng] ELSE RandomState(DEFAULT_SEED)

\* The calls on a generator continue one another: the first starts from
\* the state the generator was made in, each later one from where the one
\* before it stopped, and the generator is where the last one left it.
Continuous(g) ==
    LET gl == GenLog(g)
    IN  /\ \A n \in 1..Len(gl) :
             gl[n].pre = IF n = 1 THEN FreshGen(g) ELSE gl[n - 1].post
        /\ gens[g] = IF gl = <<>> THEN FreshGen(g) ELSE gl[Len(gl)].post

\* The scale of SqrtInit and KaimingInit comes from the shape of the call.
ScaleOfCall(cls, e) ==
    /\ cls = "SqrtInit" =>
         \A k \in 1..Len(e.ret.value.data) :
            SurdSq(e.ret.value.data[k].scale) = Rat(1, e.shape[2])
    /\ cls = "KaimingInit" =>
         \A k \in 1..Len(e.ret.value.data) :
            SurdSq(e.ret.value.data[k].scale) = Rat(2, e.shape[2])

====
